---- MODULE Spec2Model ----
(***************************************************************************)
(* Model of the portable-chatbot mock chat API:                            *)
(*   src/mock-api.js        the fetch interceptor (interception adapter)   *)
(*   src/backend-example.js the Express POST /api/chat route (listener)    *)
(*                                                                         *)
(* A text is a sequence of pieces.  A piece is the one-character string    *)
(* " " or a non-empty string without a space (one character for user       *)
(* input that is searched for keywords, a longer run for reply corpora).   *)
(* String.split(' ') and string concatenation only look at where the       *)
(* spaces are, so they are computed exactly on this representation.        *)
(*                                                                         *)
(* Specifications:                                                         *)
(*   Spec          every input, the requests handled one after another     *)
(*   SpecLive      Spec with the pacing timers firing (weak fairness)      *)
(*   SpecParallel  streaming requests in flight together                   *)
(***************************************************************************)
EXTENDS Integers, Sequences, FiniteSets, TLC

(***************************************************************************)
(* Bounds of the model.                                                    *)
(***************************************************************************)
MaxInstalls == 2      \* how often the interceptor script is loaded
MaxInFlight == 1      \* requests being handled at the same time
MaxLateTicks == 1     \* timer callbacks observed after the sink is gone
MaxParallel == 2      \* streaming requests in flight together (SpecParallel)

ReqIds == 1..MaxInFlight
ParallelIds == 1..MaxParallel

(***************************************************************************)
(* Strings.                                                                *)
(***************************************************************************)
SP == " "

\* String.prototype.includes
Includes(s, sub) ==
    \E i \in 0..(Len(s) - Len(sub)) : SubSeq(s, i + 1, i + Len(sub)) = sub

\* String.prototype.startsWith
StartsWith(s, pre) ==
    Len(s) >= Len(pre) /\ SubSeq(s, 1, Len(pre)) = pre

\* String.prototype.endsWith
EndsWith(s, suf) ==
    Len(s) >= Len(suf) /\ SubSeq(s, Len(s) - Len(suf) + 1, Len(s)) = suf

LowerOf(c) ==
    CASE c = "C" -> "c"
      [] c = "F" -> "f"
      [] c = "H" -> "h"
      [] c = "M" -> "m"
      [] OTHER -> c

\* String.prototype.toLowerCase
ToLowerCase(s) == [i \in 1..Len(s) |-> LowerOf(s[i])]

\* String.prototype.split(' '): the tokens between single spaces; two
\* adjacent spaces give an empty token, and "" splits into one empty token.
RECURSIVE Split(_)
Split(s) ==
    IF \A i \in 1..Len(s) : s[i] # SP
    THEN <<s>>
    ELSE LET p == CHOOSE i \in 1..Len(s) :
                      s[i] = SP /\ \A j \in 1..(i - 1) : s[j] # SP
         IN  <<SubSeq(s, 1, p - 1)>> \o Split(SubSeq(s, p + 1, Len(s)))

\* Array.prototype.join(sep)
RECURSIVE Join(_, _)
Join(xs, sep) ==
    IF xs = <<>> THEN <<>>
    ELSE IF Len(xs) = 1 THEN xs[1]
    ELSE xs[1] \o sep \o Join(Tail(xs), sep)

\* the texts of a sequence of strings, one after the other
RECURSIVE Concat(_)
Concat(xs) == IF xs = <<>> THEN <<>> ELSE xs[1] \o Concat(Tail(xs))

\* decimal rendering of a small count inside a template string
NumText(n) == <<ToString(n)>>

(***************************************************************************)
(* JavaScript values carried by a request.  Every value is a record        *)
(* [t, text, items]: t is the typeof/shape, text the payload of a string   *)
(* (or the content of a message object), items the elements of an array.   *)
(* A string that is the JSON serialisation of a value v carries v in       *)
(* items (text "json"); any other string is not valid JSON.                *)
(***************************************************************************)
JUndef == [t |-> "undefined", text |-> <<>>, items |-> <<>>]
JNull == [t |-> "null", text |-> <<>>, items |-> <<>>]
JTrue == [t |-> "boolean", text |-> <<"true">>, items |-> <<>>]
JFalse == [t |-> "boolean", text |-> <<"false">>, items |-> <<>>]
JNum(n) == [t |-> "number", text |-> <<ToString(n)>>, items |-> <<>>]
JStr(s) == [t |-> "string", text |-> s, items |-> <<>>]
JObj == [t |-> "object", text |-> <<>>, items |-> <<>>]
JArr(xs) == [t |-> "array", text |-> <<>>, items |-> xs]
\* {role: 'user', content: s}
JMsg(s) == [t |-> "message", text |-> s, items |-> <<>>]
\* JSON.stringify(v), as a string value
JsonText(v) == [t |-> "string", text |-> <<"json">>, items |-> <<v>>]

\* ToBoolean, as used by `if (x)`, `x || y` and `x ? a : b`
Truthy(v) ==
    CASE v.t \in {"undefined", "null"} -> FALSE
      [] v.t = "boolean" -> v = JTrue
      [] v.t = "number" -> v # JNum(0)
      [] v.t = "string" -> v.text # <<>>
      [] OTHER -> TRUE

\* JSON.parse(string): [ok |-> FALSE] stands for the SyntaxError it throws
JsonParse(v) ==
    IF v.t = "string" /\ v.items # <<>>
    THEN [ok |-> TRUE, value |-> v.items[1]]
    ELSE [ok |-> FALSE, value |-> JUndef]

\* xs[xs.length - 1] for any value xs: the last element of an array, the
\* last character of a string, undefined for everything else
LastOf(v) ==
    CASE v.t = "array" /\ v.items # <<>> -> v.items[Len(v.items)]
      [] v.t = "string" /\ v.text # <<>> -> JStr(<<v.text[Len(v.text)]>>)
      [] OTHER -> JUndef

\* x.content: the content of a message object, undefined on anything else
ContentOf(v) == IF v.t = "message" THEN JStr(v.text) ELSE JUndef

\* reading a property of undefined or null throws a TypeError
ThrowsOnRead(v) == v.t \in {"undefined", "null"}

(***************************************************************************)
(* Keywords and fixed texts.                                               *)
(***************************************************************************)
KwCode == <<"c", "o", "d", "e">>
KwJavascript == <<"j", "a", "v", "a", "s", "c", "r", "i", "p", "t">>
KwPython == <<"p", "y", "t", "h", "o", "n">>
KwTechnical == <<"t", "e", "c", "h", "n", "i", "c", "a", "l">>
KwPerformance == <<"p", "e", "r", "f", "o", "r", "m", "a", "n", "c", "e">>
KwOptimize == <<"o", "p", "t", "i", "m", "i", "z", "e">>
KwHow == <<"h", "o", "w">>
KwWork == <<"w", "o", "r", "k">>
KwIntegrate == <<"i", "n", "t", "e", "g", "r", "a", "t", "e">>
KwMarkdown == <<"m", "a", "r", "k", "d", "o", "w", "n">>
KwFile == <<"f", "i", "l", "e">>
FilePrefix == <<"f", "i", "l", "e", "_">>
ChatPath == <<"/", "a", "p", "i", "/", "c", "h", "a", "t">>
StrTrue == <<"t", "r", "u", "e">>
StrFalse == <<"f", "a", "l", "s", "e">>
StrHello == <<"H", "e", "l", "l", "o">>
StrFileUpload == <<"f", "i", "l", "e", " ", "u", "p", "l", "o", "a", "d">>
CommaSpace == <<",", " ">>

(***************************************************************************)
(* Reply corpora.  Each entry stands for the source string of the same     *)
(* position, shortened to a few of its words; runs of spaces and line      *)
(* breaks inside a word are kept where the source string has them.         *)
(***************************************************************************)
\* mock-api.js
MockResponses ==
    << <<"I'm", " ", "a", " ", "demo">>,
       <<"This", " ", "is">>,
       <<"Great", " ", "works:\n\n**Bold", " ", "text**">>,
       <<"I", " ", "notice">>,
       <<"This", " ", "chatbot">> >>

CodeExamples ==
    << <<"Here's", " ", "hello_world():\n", " ", " ", " ", " ", "print">>,
       <<"And", " ", "here's">>,
       <<"CSS", " ", "styling">> >>

TechnicalResponses ==
    << <<"The", " ", "chatbot">>,
       <<"Performance", " ", "optimizations">> >>

IntegrationText == <<"Integration", " ", "is">>

\* `I can see you've uploaded: **${files.join(', ')}**\n\nIn a real ...`
FileResponse(files) ==
    <<"uploaded:", " ", "**">> \o Join(files, CommaSpace)
        \o <<"**\n\nIn", " ", "a">>

\* backend-example.js
BackendResponses ==
    << <<"Hello!", " ", "I'm">>,
       <<"That's", " ", "an">>,
       <<"I", " ", "understand">>,
       <<"Thanks", " ", "for">>,
       <<"I'm", " ", "here">>,
       <<"That's", " ", "a">>,
       <<"I", " ", "can">> >>

BackendCodeText ==
    <<"Here's", " ", "{\n", " ", " ", " ", " ", "return">>

BackendMarkdownText == <<"Here's", " ", "some">>

\* `I can see you've uploaded ${n} file(s): ${fileNames}. I'm a demo ...`
BackendFileText(names) ==
    <<"uploaded", " ">> \o NumText(Len(names)) \o <<" ", "file(s):", " ">>
        \o Join(names, CommaSpace) \o <<".", " ", "I'm">>

Range(f) == {f[i] : i \in DOMAIN f}

(***************************************************************************)
(* The response lists are arrays the scripts keep for as long as they run: *)
(* state every request reads.                                              *)
(*   corpora   mockResponses, codeExamples and technicalResponses of       *)
(*             mock-api.js, and mockResponses of backend-example.js        *)
(***************************************************************************)
VARIABLE corpora

InitialCorpora ==
    [mockResponses |-> MockResponses, codeExamples |-> CodeExamples,
     technicalResponses |-> TechnicalResponses,
     backendResponses |-> BackendResponses]

\* a list without the entries equal to x
RECURSIVE Without(_, _)
Without(list, x) ==
    IF list = <<>> THEN <<>>
    ELSE (IF list[1] = x THEN <<>> ELSE <<list[1]>>) \o Without(Tail(list), x)

\* a selection that takes the response out of the list (list.splice)
AfterTake(list, response) == Without(list, response)

\* list[Math.floor(Math.random() * list.length)]: the list after the
\* selection has read `response` from it
AfterRead(list, response) == list

\* the lists after a handler has selected `response`
AfterSelect(c, response) == [n \in DOMAIN c |-> AfterRead(c[n], response)]

(***************************************************************************)
(* Response selection.                                                     *)
(***************************************************************************)
\* generateResponse(message) throws a TypeError unless message is a string
GenerateThrows(msg) == msg.t # "string"

\* generateResponse(message) with the given lists: the replies
\* Math.random() can pick
GenerateResponseFrom(lists, msg) ==
    LET lowerMsg == ToLowerCase(msg.text)
    IN  IF Includes(lowerMsg, KwCode) \/ Includes(lowerMsg, KwJavascript)
           \/ Includes(lowerMsg, KwPython)
        THEN Range(lists.codeExamples)
        ELSE IF Includes(lowerMsg, KwTechnical)
                \/ Includes(lowerMsg, KwPerformance)
                \/ Includes(lowerMsg, KwOptimize)
        THEN Range(lists.technicalResponses)
        ELSE IF Includes(lowerMsg, KwHow)
                /\ (Includes(lowerMsg, KwWork) \/ Includes(lowerMsg, KwIntegrate))
        THEN {IntegrationText}
        ELSE Range(lists.mockResponses)

\* generateResponse(message), reading the lists as they are
GenerateResponse(msg) == GenerateResponseFrom(corpora, msg)

\* getRandomResponse() with the given lists
GetRandomResponseFrom(lists) == Range(lists.backendResponses)

\* getRandomResponse()
GetRandomResponse == GetRandomResponseFrom(corpora)

\* the if / else-if chain of app.post('/api/chat') choosing `response`,
\* with the given lists
BackendSelectFrom(lists, userMessage, fileNames) ==
    LET lower == ToLowerCase(userMessage)
    IN  IF Includes(lower, KwFile) /\ Len(fileNames) > 0
        THEN {BackendFileText(fileNames)}
        ELSE IF Includes(lower, KwCode)
        THEN {BackendCodeText}
        ELSE IF Includes(lower, KwMarkdown)
        THEN {BackendMarkdownText}
        ELSE GetRandomResponseFrom(lists)

\* the same, reading the lists as they are
BackendSelect(userMessage, fileNames) ==
    BackendSelectFrom(corpora, userMessage, fileNames)

(***************************************************************************)
(* What a response body is made of.  An event record is one               *)
(* `data: <json>\n\n` frame; a JSON body is one JSON document that is not  *)
(* framed.  keys are the property names of the JSON object, content the    *)
(* value of its content property (or of choices[0].message.content).       *)
(***************************************************************************)
\* `data: ${JSON.stringify({ content: text })}\n\n`
ContentRecord(text) ==
    [frame |-> "event", keys |-> {"content"}, content |-> text]

\* 'data: {"done": true}\n\n'
DoneRecord == [frame |-> "event", keys |-> {"done"}, content |-> <<>>]

\* JSON.stringify({choices: [{message: {content: text}}]})
ChoicesBody(text) ==
    [frame |-> "json", keys |-> {"choices"}, content |-> text]

\* res.json({content, done: true, timestamp})
BackendJsonBody(text) ==
    [frame |-> "json", keys |-> {"content", "done", "timestamp"}, content |-> text]

\* {error} of the interceptor, {error, message} of the listener
MockErrorBody == [frame |-> "json", keys |-> {"error"}, content |-> <<>>]

BackendErrorBody(text) ==
    [frame |-> "json", keys |-> {"error", "message"}, content |-> text]

(***************************************************************************)
(* Inputs.                                                                 *)
(***************************************************************************)
TxtHi == <<"h", "i">>
TxtCode == <<"C", "o", "d", "e">>
TxtFile == <<"f", "i", "l", "e">>
TxtFileCode == <<"f", "i", "l", "e", " ", "c", "o", "d", "e">>
TxtOptimize == <<"o", "p", "t", "i", "m", "i", "z", "e">>
TxtHowWork == <<"h", "o", "w", " ", "w", "o", "r", "k">>
TxtMarkdown == <<"m", "a", "r", "k", "d", "o", "w", "n">>
TxtAbc == <<"a", "b", "c">>
TxtUpperMarkdown == <<"M", "a", "r", "k", "d", "o", "w", "n">>
TxtPerformance == <<"p", "e", "r", "f", "o", "r", "m", "a", "n", "c", "e">>

UserTexts ==
    {TxtHi, TxtCode, TxtFile, TxtFileCode, TxtOptimize, TxtHowWork, TxtMarkdown}

\* arrays of message objects
WellFormedMessages ==
    {JArr(<<>>), JArr(<<JMsg(TxtCode), JMsg(TxtHi)>>)}
        \cup {JArr(<<JMsg(t)>>) : t \in UserTexts}

\* a `messages` that is present but is no array of message objects
MalformedMessages ==
    {JStr(TxtAbc), JArr(<<JObj>>), JArr(<<JNum(5)>>), JObj, JNull, JNum(5)}

JsonMessages == {JUndef} \cup WellFormedMessages \cup MalformedMessages

\* the `messages` text field of a multipart form
FormMessages ==
    {JUndef, JStr(TxtAbc), JsonText(JNull), JsonText(JArr(<<JObj>>)),
     JsonText(JArr(<<>>))}
        \cup {JsonText(JArr(<<JMsg(t)>>)) :
                  t \in {TxtHi, TxtFile, TxtFileCode, TxtMarkdown}}

\* the `messages` entry of a FormData body given to fetch
FormDataMessages ==
    {JsonText(JArr(<<>>)), JsonText(JArr(<<JMsg(TxtCode)>>))}

StreamValues ==
    {JUndef, JTrue, JFalse, JStr(StrTrue), JStr(StrFalse), JNum(1), JNum(0),
     JStr(<<>>), JObj}

\* the `stream` text field of a multipart form
FormStreamValues == {JUndef, JStr(StrTrue), JStr(StrFalse)}

PathHealth == <<"/", "a", "p", "i", "/", "h", "e", "a", "l", "t", "h">>
PathSearch == <<"/", "s", "e", "a", "r", "c", "h">>
QueryNext ==
    <<"?", "n", "e", "x", "t", "=", "/", "a", "p", "i", "/", "c", "h", "a", "t">>
Origin == <<"https://demo.example">>

Url(kind, origin, pathname, search) ==
    [kind |-> kind, origin |-> origin, pathname |-> pathname, search |-> search]

\* kind "string": the url argument is the string origin + pathname + search;
\* kind "URL": a URL object; kind "Request": a Request object
Urls ==
    {Url("string", <<>>, ChatPath, <<>>),
     Url("string", Origin, ChatPath, <<>>),
     Url("URL", Origin, ChatPath, <<>>),
     Url("Request", Origin, ChatPath, <<>>),
     Url("string", <<>>, PathHealth, <<>>),
     Url("URL", Origin, PathHealth, <<>>),
     Url("string", <<>>, ChatPath \o <<"s">>, <<>>),
     Url("string", Origin, PathSearch, QueryNext),
     Url("URL", Origin, PathSearch, QueryNext)}

NoUrl == Url("none", <<>>, <<>>, <<>>)

Href(u) == u.origin \o u.pathname \o u.search

NameA == <<"a", ".", "p", "d", "f">>
NameB == <<"b", " ", "c", ".", "p", "n", "g">>
Field0 == <<"f", "i", "l", "e", "_", "0">>
Field1 == <<"f", "i", "l", "e", "_", "1">>
FieldDoc == <<"d", "o", "c">>

File(field, name, mimetype, sizeMB) ==
    [field |-> field, name |-> name, mimetype |-> mimetype, sizeMB |-> sizeMB]

Pdf(field, name) == File(field, name, "application/pdf", 1)

\* file entries of a FormData body given to fetch
FormDataEntries ==
    {<<>>,
     <<Pdf(Field0, NameA)>>,
     <<Pdf(Field0, NameA), File(Field1, NameB, "image/png", 1)>>,
     <<Pdf(FieldDoc, NameA)>>}

\* file parts of a multipart request sent to the listener
UploadSets ==
    {<<>>,
     <<Pdf(Field0, NameA)>>,
     <<Pdf(Field0, NameA), File(Field1, NameB, "image/png", 1)>>,
     <<File(Field0, NameA, "application/zip", 1)>>,
     <<Pdf(Field0, NameA), File(Field1, NameB, "video/mp4", 1)>>,
     <<File(Field0, NameA, "application/pdf", 11)>>,
     <<Pdf(Field0, NameA), Pdf(Field0, NameA), Pdf(Field0, NameA),
       Pdf(Field0, NameA), Pdf(Field0, NameA), Pdf(Field0, NameA)>>}

Input(url, kind, messages, stream, files) ==
    [url |-> url, kind |-> kind, messages |-> messages, stream |-> stream,
     files |-> files]

NoInput == Input(NoUrl, "none", JUndef, JUndef, <<>>)

\* {messages, stream} objects: every `messages` with two `stream` values,
\* and every `stream` with two `messages` values
JsonObjects ==
    {Input(NoUrl, "json", m, st, <<>>) : m \in JsonMessages, st \in {JUndef, JTrue}}
        \cup {Input(NoUrl, "json", m, st, <<>>) :
                  m \in {JArr(<<JMsg(TxtHowWork)>>), JArr(<<JMsg(TxtMarkdown)>>)},
                  st \in StreamValues}

\* options.body of a fetch call:
\*   "json"      a string, JSON.stringify of an object {messages, stream}
\*   "jsonnull"  the string "null"
\*   "garbage"   a string that is not JSON
\*   "other"     no body, or a body that is neither a string nor FormData
\*   "FormData"  a FormData with the given file entries, with or without a
\*               `messages` entry
FetchBodies ==
    JsonObjects
        \cup {Input(NoUrl, k, JUndef, JUndef, <<>>) :
                  k \in {"jsonnull", "garbage", "other"}}
        \cup {Input(NoUrl, "FormData", JUndef, JUndef, e) : e \in FormDataEntries}
        \cup {Input(NoUrl, "FormData", m, JUndef, e) :
                  m \in FormDataMessages,
                  e \in {<<>>, <<Pdf(Field0, NameA)>>}}

\* the bodies sent to every url; the other bodies go to '/api/chat' only
CommonBodies ==
    {Input(NoUrl, "json", JArr(<<JMsg(TxtHowWork)>>), st, <<>>) :
         st \in {JTrue, JFalse}}
        \cup {Input(NoUrl, "FormData", JUndef, JUndef, <<Pdf(Field0, NameA)>>),
              Input(NoUrl, "other", JUndef, JUndef, <<>>)}

FetchInputs ==
    {[b EXCEPT !.url = u] : b \in CommonBodies, u \in Urls}
        \cup {[b EXCEPT !.url = Url("string", <<>>, ChatPath, <<>>)] :
                  b \in FetchBodies}

\* requests arriving at POST /api/chat:
\*   "json"       application/json, parsed by express.json()
\*   "garbage"    application/json with a body that is not JSON
\*   "multipart"  multipart/form-data, parsed by multer; every file set with
\*                two `messages` fields, every `messages` field with two
\*                file sets, and every `stream` field
ListenerInputs ==
    JsonObjects
        \cup {Input(NoUrl, "garbage", JUndef, JUndef, <<>>)}
        \cup {Input(NoUrl, "multipart", m, st, f) :
                  m \in {JsonText(JArr(<<JMsg(TxtFileCode)>>)), JStr(TxtAbc)},
                  st \in {JStr(StrTrue)}, f \in UploadSets}
        \cup {Input(NoUrl, "multipart", m, st, f) :
                  m \in FormMessages, st \in {JStr(StrTrue)},
                  f \in {<<>>, <<Pdf(Field0, NameA),
                                 File(Field1, NameB, "image/png", 1)>>}}
        \cup {Input(NoUrl, "multipart", JsonText(JArr(<<JMsg(TxtMarkdown)>>)),
                     st, <<>>) : st \in FormStreamValues}

\* the requests that may start while another request is being handled: a
\* streaming call through the interceptor and a non-streaming request to
\* the listener
ConcurrentInputs ==
    {Input(Url("string", <<>>, ChatPath, <<>>), "json",
           JArr(<<JMsg(TxtHowWork)>>), JTrue, <<>>),
     Input(NoUrl, "json", JArr(<<JMsg(TxtMarkdown)>>), JUndef, <<>>)}

\* the streaming requests that are in flight together in SpecParallel: two
\* through the interceptor, with different replies, and one to the listener
ParallelInputs ==
    {Input(Url("string", <<>>, ChatPath, <<>>), "json",
           JArr(<<JMsg(TxtHowWork)>>), JTrue, <<>>),
     Input(Url("string", <<>>, ChatPath, <<>>), "json",
           JArr(<<JMsg(TxtPerformance)>>), JTrue, <<>>),
     Input(NoUrl, "json", JArr(<<JMsg(TxtUpperMarkdown)>>), JTrue, <<>>)}

(***************************************************************************)
(* State.                                                                  *)
(*   installs  how many times mock-api.js has wrapped window.fetch         *)
(*   reqs      the requests, one record per request slot                   *)
(*   corpora   the response lists (declared above)                         *)
(***************************************************************************)
VARIABLES installs, reqs

vars == <<installs, reqs, corpora>>

\*   adapter    "fetch" or "listener"
\*   phase      where the handler of the request is
\*   reply      the selected reply (`response`)
\*   words      `chunks` / `words`, the reply split on ' '
\*   i          the loop counter `i`
\*   status     HTTP status of the response, 0 while there is none
\*   ctype      Content-Type of the response
\*   body       the records written to the response body, in order
\*   sink       "open", "closed" (controller.close / res.end / a complete
\*              body) or "gone" (cancelled or disconnected by the client)
\*   timer      a setInterval / setTimeout of the emission is pending
\*   late       writes attempted on a sink that is gone
\*   thrown     exceptions thrown while the request was handled
\*   uncaught   those of them that no catch block caught
\*   wrappers   wrappers of fetch the call went through
\*   engineRuns wrappers that handled the call themselves
\*   native     the (url, options) the original fetch was called with
\*   result     "synthetic" or "native": whose response the caller gets
\*   handlerRan the chat route handler was entered
\*   staged     indexes of the uploaded files present in uploads/
\*   cleanup    the unlink timer is pending
Idle ==
    [adapter |-> "none", phase |-> "idle", input |-> NoInput,
     reply |-> <<>>, words |-> <<>>, i |-> 0,
     status |-> 0, ctype |-> "none", body |-> <<>>, sink |-> "none",
     timer |-> FALSE, late |-> 0, thrown |-> 0, uncaught |-> 0,
     wrappers |-> 0, engineRuns |-> 0, native |-> <<>>, result |-> "none",
     handlerRan |-> FALSE, staged |-> {}, cleanup |-> FALSE]

Init ==
    /\ installs = 1
    /\ corpora = InitialCorpora
    /\ reqs = [r \in ReqIds |-> Idle]

\* the slots that hold a request: being handled, or finished and not yet
\* retired
InFlight == {r \in DOMAIN reqs : reqs[r].phase # "idle"}

\* a request starts in the first free slot; the model lets every input
\* start when no other slot is in use, and ConcurrentInputs and
\* ParallelInputs otherwise
MayStart(r, in) ==
    /\ reqs[r].phase = "idle"
    /\ \A q \in DOMAIN reqs : q < r => reqs[q].phase # "idle"
    /\ InFlight = {} \/ in \in ConcurrentInputs \cup ParallelInputs

(***************************************************************************)
(* The interception adapter: window.fetch of mock-api.js.                  *)
(***************************************************************************)
\* isApiCall
IsApiCall(url) ==
    \/ url.kind = "string" /\ Includes(Href(url), ChatPath)
    \/ url.kind = "URL" /\ Includes(url.pathname, ChatPath)
    \/ url.kind = "string" /\ EndsWith(Href(url), ChatPath)

\* WindowFetch: calling window.fetch when the script has been loaded `level` times: each
\* load wraps the fetch it finds (originalFetch), level 0 is the browser's
\* own fetch.  engineRuns counts the wrappers that took the call, wrappers
\* those the call went through, native lists the arguments the browser's
\* fetch was called with.
RECURSIVE WindowFetchEveryWrapper(_, _)
WindowFetchEveryWrapper(level, in) ==
    IF level = 0
    THEN [engineRuns |-> 0, wrappers |-> 0, native |-> <<in>>]
    ELSE LET below == WindowFetchEveryWrapper(level - 1, in)
         IN  IF IsApiCall(in.url)
             THEN [engineRuns |-> 1 + below.engineRuns,
                   wrappers |-> 1 + below.wrappers, native |-> <<>>]
             ELSE [below EXCEPT !.wrappers = @ + 1]

RECURSIVE WindowFetch(_, _)
WindowFetch(level, in) ==
    IF level = 0
    THEN [engineRuns |-> 0, wrappers |-> 0, native |-> <<in>>]
    ELSE IF IsApiCall(in.url)
    THEN [engineRuns |-> 1, wrappers |-> 1, native |-> <<>>]
    ELSE [WindowFetch(level - 1, in) EXCEPT !.wrappers = @ + 1]

\* the script is loaded once more
Install ==
    /\ installs < MaxInstalls
    /\ installs' = installs + 1
    /\ UNCHANGED <<reqs, corpora>>

\* fetch(url, options) is called
FetchCall(r, in) ==
    /\ MayStart(r, in)
    /\ LET w == WindowFetch(installs, in)
       IN  reqs' = [reqs EXCEPT ![r] =
               [Idle EXCEPT !.adapter = "fetch", !.input = in,
                            !.wrappers = w.wrappers,
                            !.engineRuns = w.engineRuns, !.native = w.native,
                            !.phase = IF w.engineRuns > 0 THEN "delay" ELSE "done",
                            !.result = IF w.engineRuns > 0 THEN "none" ELSE "native"]]
    /\ UNCHANGED <<installs, corpora>>

\* files: the names of the FormData entries whose key starts with 'file_'
RECURSIVE FormFileNames(_)
FormFileNames(entries) ==
    IF entries = <<>> THEN <<>>
    ELSE (IF StartsWith(entries[1].field, FilePrefix)
          THEN <<entries[1].name>> ELSE <<>>) \o FormFileNames(Tail(entries))

\* `messages` after the body has been parsed: data.messages || [], and []
\* when the body is no string, does not parse or parses to null
FetchMessages(in) ==
    IF in.kind = "json" /\ Truthy(in.messages) THEN in.messages ELSE JArr(<<>>)

\* userMessage = lastMessage ? lastMessage.content : 'Hello'
FetchUserMessage(in) ==
    LET lastMessage == LastOf(FetchMessages(in))
    IN  IF Truthy(lastMessage) THEN ContentOf(lastMessage) ELSE JStr(StrHello)

\* data.stream; data is null when the body is the JSON text null (the
\* assignment to data happens before data.messages throws)
FetchStreamThrows(in) == in.kind = "jsonnull"

FetchStream(in) == IF in.kind = "json" THEN in.stream ELSE JUndef

\* return new Response(body, {status, headers}) with a complete body
Respond(q, status, ctype, body) ==
    [q EXCEPT !.phase = "done", !.status = status, !.ctype = ctype,
              !.body = body, !.sink = "closed", !.result = "synthetic"]

\* content of the i-th chunk (0-based) sent by the interval callback
FetchChunk(chunks, i) == IF i = 0 THEN chunks[i + 1] ELSE <<SP>> \o chunks[i + 1]

\* the delay is over: the try block of the wrapper runs up to its return
FetchRespond(r) ==
    LET q == reqs[r]
        in == q.input
    IN  /\ q.adapter = "fetch"
        /\ q.phase = "delay"
        /\ UNCHANGED installs
        /\ IF in.kind = "FormData"
           THEN LET files == FormFileNames(in.files)
                IN  \E fileResponse \in
                           (IF Len(files) > 0 THEN {FileResponse(files)}
                            ELSE GenerateResponse(JStr(StrFileUpload))) :
                       /\ corpora' = AfterSelect(corpora, fileResponse)
                       /\ reqs' = [reqs EXCEPT ![r] =
                              Respond([q EXCEPT !.reply = fileResponse], 200,
                                      "application/json",
                                      <<ChoicesBody(fileResponse)>>)]
           ELSE IF GenerateThrows(FetchUserMessage(in))
           THEN /\ UNCHANGED corpora
                /\ reqs' = [reqs EXCEPT ![r] =
                       Respond([q EXCEPT !.thrown = @ + 1], 500,
                               "application/json", <<MockErrorBody>>)]
           ELSE \E response \in GenerateResponse(FetchUserMessage(in)) :
                  /\ corpora' = AfterSelect(corpora, response)
                  /\ IF FetchStreamThrows(in)
                       THEN reqs' = [reqs EXCEPT ![r] =
                                Respond([q EXCEPT !.reply = response,
                                                  !.thrown = @ + 1], 500,
                                        "application/json", <<MockErrorBody>>)]
                       ELSE IF Truthy(FetchStream(in))
                       THEN reqs' = [reqs EXCEPT ![r] =
                                [q EXCEPT !.reply = response,
                                          !.words = Split(response), !.i = 0,
                                          !.phase = "stream", !.status = 200,
                                          !.ctype = "text/event-stream",
                                          !.sink = "open", !.timer = TRUE,
                                          !.result = "synthetic"]]
                       ELSE reqs' = [reqs EXCEPT ![r] =
                                Respond([q EXCEPT !.reply = response], 200,
                                        "text/event-stream",
                                        <<ContentRecord(response), DoneRecord>>)]

\* every request whose chunks are sent by one counter `i` and one timer
\* shared by all the streams
TimerScopeShared(r) == DOMAIN reqs

\* the requests whose `i`, `timer` and `controller` the interval callback
\* of request r uses: start(controller) declares them anew for every
\* stream, so they are those of r alone
TimerScope(r) == {r}

\* the requests after the callback of request r has sent a chunk and run
\* i++: r becomes q, and the `i` of every other stream in the scope of the
\* callback moves as well
AfterChunk(r, q) ==
    [s \in DOMAIN reqs |->
        IF s = r THEN q
        ELSE IF s \in TimerScope(r) /\ reqs[s].phase = "stream"
        THEN [reqs[s] EXCEPT !.i = @ + 1]
        ELSE reqs[s]]

\* the setInterval callback fires.  controller.enqueue throws a TypeError
\* on a stream that has been cancelled; nothing catches it and the lines
\* after it (i++, close, clearInterval) do not run.
FetchTick(r) ==
    LET q == reqs[r]
    IN  /\ q.adapter = "fetch"
        /\ q.phase = "stream"
        /\ q.timer
        /\ UNCHANGED <<installs, corpora>>
        /\ IF q.sink = "gone"
           THEN /\ q.late < MaxLateTicks
                /\ reqs' = [reqs EXCEPT ![r] =
                       [q EXCEPT !.late = @ + 1, !.thrown = @ + 1,
                                 !.uncaught = @ + 1]]
           ELSE IF q.i < Len(q.words)
           THEN reqs' = AfterChunk(r,
                    [q EXCEPT !.body = Append(@, ContentRecord(FetchChunk(q.words, q.i))),
                              !.i = @ + 1])
           ELSE reqs' = [reqs EXCEPT ![r] =
                    [q EXCEPT !.body = Append(@, DoneRecord),
                              !.sink = "closed", !.timer = FALSE,
                              !.phase = "done"]]

\* the consumer cancels the response body (reader.cancel(), an aborted
\* read); the stream was built without a cancel callback
FetchCancel(r) ==
    /\ reqs[r].adapter = "fetch"
    /\ reqs[r].phase = "stream"
    /\ reqs[r].sink = "open"
    /\ reqs' = [reqs EXCEPT ![r] = [@ EXCEPT !.sink = "gone"]]
    /\ UNCHANGED <<installs, corpora>>

(***************************************************************************)
(* The listener adapter: app.post('/api/chat', upload.any(), handler) of   *)
(* backend-example.js.                                                     *)
(***************************************************************************)
MaxFileSizeMB == 10
MaxFileCount == 5

AllowedTypes ==
    {"image/jpeg", "image/png", "image/gif", "image/webp",
     "application/pdf", "text/plain", "application/msword",
     "application/vnd.openxmlformats-officedocument.wordprocessingml.document"}

NoError == [class |-> "none", code |-> "", message |-> <<>>]

\* new Error(`File type ${file.mimetype} not allowed`)
FileTypeError(mimetype) ==
    [class |-> "Error", code |-> "",
     message |-> <<"File", " ", "type", " ", mimetype, " ", "not", " ", "allowed">>]

MulterError(code) ==
    [class |-> "MulterError", code |-> code, message |-> <<code>>]

\* the SyntaxError express.json() passes to next() for a body that is not JSON
BodyParseError ==
    [class |-> "SyntaxError", code |-> "", message |-> <<"Unexpected", " ", "token">>]

\* upload.any() reading the file parts in order, from part k on: a part
\* beyond limits.files, a part fileFilter refuses, or a part larger than
\* limits.fileSize ends the upload with that error
RECURSIVE Upload(_, _)
Upload(files, k) ==
    IF k > Len(files) THEN NoError
    ELSE IF k > MaxFileCount THEN MulterError("LIMIT_FILE_COUNT")
    ELSE IF files[k].mimetype \notin AllowedTypes
    THEN FileTypeError(files[k].mimetype)
    ELSE IF files[k].sizeMB > MaxFileSizeMB THEN MulterError("LIMIT_FILE_SIZE")
    ELSE Upload(files, k + 1)

\* the error handling middleware: status and body it answers with
ErrorStatus(error) ==
    IF error.class = "MulterError"
       /\ error.code \in {"LIMIT_FILE_SIZE", "LIMIT_FILE_COUNT"}
    THEN 400
    ELSE 500

ErrorBody(error) ==
    IF error.class = "MulterError" /\ error.code = "LIMIT_FILE_SIZE"
    THEN BackendErrorBody(<<"Maximum", " ", "file", " ", "size", " ", "is", " ", "10MB">>)
    ELSE IF error.class = "MulterError" /\ error.code = "LIMIT_FILE_COUNT"
    THEN BackendErrorBody(<<"Maximum", " ", "5", " ", "files", " ", "allowed">>)
    ELSE BackendErrorBody(error.message)

\* a request arrives at POST /api/chat
ListenerReceive(r, in) ==
    /\ MayStart(r, in)
    /\ reqs' = [reqs EXCEPT ![r] =
           [Idle EXCEPT !.adapter = "listener", !.input = in,
                        !.phase = "upload", !.sink = "open"]]
    /\ UNCHANGED <<installs, corpora>>

\* what express.json() and upload.any() hand to next()
MiddlewareError(in) ==
    IF in.kind = "garbage" THEN BodyParseError ELSE Upload(in.files, 1)

\* express.json() and upload.any() ran: next() into the handler with the
\* files stored in uploads/, or next(error) into the error handling
\* middleware (multer removes the files it had stored)
ListenerUpload(r) ==
    LET q == reqs[r]
        error == MiddlewareError(q.input)
    IN  /\ q.adapter = "listener"
        /\ q.phase = "upload"
        /\ UNCHANGED <<installs, corpora>>
        /\ IF error = NoError
           THEN reqs' = [reqs EXCEPT ![r] =
                    [q EXCEPT !.phase = "handler",
                              !.staged = 1..Len(q.input.files)]]
           ELSE reqs' = [reqs EXCEPT ![r] =
                    Respond(q, ErrorStatus(error), "application/json",
                            <<ErrorBody(error)>>)]

\* req.body.messages could not be turned into `messages`: JSON.parse throws
ParseThrows(in) ==
    Truthy(in.messages) /\ in.messages.t = "string" /\ ~JsonParse(in.messages).ok

\* `messages` of the handler
ListenerMessages(in) ==
    IF Truthy(in.messages)
    THEN IF in.messages.t = "string"
         THEN JsonParse(in.messages).value
         ELSE in.messages
    ELSE JArr(<<>>)

\* isStreaming
IsStreaming(in) == in.stream = JStr(StrTrue) \/ in.stream = JTrue

\* userMessage = lastMessage ? lastMessage.content : ''
ListenerUserMessage(in) ==
    LET lastMessage == LastOf(ListenerMessages(in))
    IN  IF Truthy(lastMessage) THEN ContentOf(lastMessage) ELSE JStr(<<>>)

\* req.files.map(f => f.originalname)
OriginalNames(files) == [k \in 1..Len(files) |-> files[k].name]

\* a word written with a trailing space even when it is the last one
ListenerChunkAlwaysSpace(words, i) == words[i + 1] \o <<SP>>

\* words[i] + (i < words.length - 1 ? ' ' : '')
ListenerChunk(words, i) ==
    words[i + 1] \o (IF i < Len(words) - 1 THEN <<SP>> ELSE <<>>)

\* res.write(record): the record reaches the client while the connection
\* is there; written to a connection that is gone it is dropped
Write(q, record) ==
    IF q.sink = "open"
    THEN [q EXCEPT !.body = Append(@, record)]
    ELSE [q EXCEPT !.late = @ + 1]

\* a handler that returns without ending the response
EndLeavesOpen(q) == q

\* res.end()
End(q) == [q EXCEPT !.sink = IF @ = "open" THEN "closed" ELSE @]

\* catch (error): res.status(500).json({error, message})
Catch500(q, message) ==
    [End(Write(q, BackendErrorBody(message)))
        EXCEPT !.phase = "done", !.status = 500, !.ctype = "application/json",
               !.result = "synthetic", !.thrown = @ + 1]

MsgSyntaxError == <<"Unexpected", " ", "token">>
MsgTypeError == <<"Cannot", " ", "read", " ", "properties">>

\* the route handler runs from its first line to its first await
ChatHandler(r) ==
    LET q == [reqs[r] EXCEPT !.handlerRan = TRUE]
        in == q.input
        hasFiles == Len(in.files) > 0
        \* setTimeout(() => req.files.forEach(unlink), 5000)
        qf == [q EXCEPT !.cleanup = hasFiles]
    IN  /\ q.adapter = "listener"
        /\ q.phase = "handler"
        /\ UNCHANGED installs
        /\ IF ParseThrows(in)
           THEN /\ UNCHANGED corpora
                /\ reqs' = [reqs EXCEPT ![r] = Catch500(q, MsgSyntaxError)]
           ELSE IF ThrowsOnRead(ListenerMessages(in))
           THEN /\ UNCHANGED corpora
                /\ reqs' = [reqs EXCEPT ![r] = Catch500(q, MsgTypeError)]
           ELSE IF ListenerUserMessage(in).t # "string"
           THEN /\ UNCHANGED corpora
                /\ reqs' = [reqs EXCEPT ![r] = Catch500(qf, MsgTypeError)]
           ELSE \E response \in BackendSelect(ListenerUserMessage(in).text,
                                              OriginalNames(in.files)) :
                  /\ corpora' = AfterSelect(corpora, response)
                  /\ IF IsStreaming(in)
                       THEN LET words == Split(response)
                            IN  reqs' = [reqs EXCEPT ![r] =
                                    [Write(qf, ContentRecord(ListenerChunk(words, 0)))
                                        EXCEPT !.reply = response, !.words = words,
                                               !.i = 0, !.phase = "write",
                                               !.status = 200,
                                               !.ctype = "text/event-stream",
                                               !.timer = TRUE,
                                               !.result = "synthetic"]]
                       ELSE reqs' = [reqs EXCEPT ![r] =
                                [qf EXCEPT !.reply = response, !.phase = "wait",
                                           !.timer = TRUE]]

\* the awaited setTimeout fires and the handler runs to its next await or
\* to its end
ListenerResume(r) ==
    LET q == reqs[r]
    IN  /\ q.adapter = "listener"
        /\ q.phase \in {"write", "wait"}
        /\ q.timer
        /\ UNCHANGED <<installs, corpora>>
        /\ IF q.phase = "wait"
           THEN reqs' = [reqs EXCEPT ![r] =
                    [End(Write(q, BackendJsonBody(q.reply)))
                        EXCEPT !.phase = "done", !.status = 200,
                               !.ctype = "application/json", !.timer = FALSE,
                               !.result = "synthetic"]]
           ELSE IF q.i + 1 < Len(q.words)
           THEN reqs' = [reqs EXCEPT ![r] =
                    [Write(q, ContentRecord(ListenerChunk(q.words, q.i + 1)))
                        EXCEPT !.i = q.i + 1]]
           ELSE reqs' = [reqs EXCEPT ![r] =
                    [End(Write(q, DoneRecord))
                        EXCEPT !.i = q.i + 1, !.phase = "done", !.timer = FALSE]]

\* the client closes the connection while the handler is waiting; the
\* handler registers no 'close' listener on req or res
ListenerDisconnect(r) ==
    /\ reqs[r].adapter = "listener"
    /\ reqs[r].phase \in {"write", "wait"}
    /\ reqs[r].sink = "open"
    /\ reqs' = [reqs EXCEPT ![r] = [@ EXCEPT !.sink = "gone"]]
    /\ UNCHANGED <<installs, corpora>>

\* the 5000 ms timer fires: fs.unlink of every uploaded file
CleanupFire(r) ==
    /\ reqs[r].cleanup
    /\ reqs' = [reqs EXCEPT ![r] = [@ EXCEPT !.cleanup = FALSE, !.staged = {}]]
    /\ UNCHANGED <<installs, corpora>>

\* a finished request leaves its slot
Retire(r) ==
    /\ reqs[r].phase = "done"
    /\ ~reqs[r].cleanup
    /\ reqs' = [reqs EXCEPT ![r] = Idle]
    /\ UNCHANGED <<installs, corpora>>

Next ==
    \/ Install
    \/ \E r \in ReqIds, in \in FetchInputs : FetchCall(r, in)
    \/ \E r \in ReqIds : FetchRespond(r)
    \/ \E r \in ReqIds : FetchTick(r)
    \/ \E r \in ReqIds : FetchCancel(r)
    \/ \E r \in ReqIds, in \in ListenerInputs : ListenerReceive(r, in)
    \/ \E r \in ReqIds : ListenerUpload(r)
    \/ \E r \in ReqIds : ChatHandler(r)
    \/ \E r \in ReqIds : ListenerResume(r)
    \/ \E r \in ReqIds : ListenerDisconnect(r)
    \/ \E r \in ReqIds : CleanupFire(r)
    \/ \E r \in ReqIds : Retire(r)

Spec == Init /\ [][Next]_vars

\* streaming requests handled next to each other: up to MaxParallel of
\* ParallelInputs are in flight together, each sent, streamed, cancelled
\* or disconnected, and retired as in Spec
InitParallel ==
    /\ installs = 1
    /\ corpora = InitialCorpora
    /\ reqs = [r \in ParallelIds |-> Idle]

NextParallel ==
    \/ \E r \in ParallelIds, in \in ParallelInputs :
           in.url # NoUrl /\ FetchCall(r, in)
    \/ \E r \in ParallelIds : FetchRespond(r)
    \/ \E r \in ParallelIds : FetchTick(r)
    \/ \E r \in ParallelIds : FetchCancel(r)
    \/ \E r \in ParallelIds, in \in ParallelInputs :
           in.url = NoUrl /\ ListenerReceive(r, in)
    \/ \E r \in ParallelIds : ListenerUpload(r)
    \/ \E r \in ParallelIds : ChatHandler(r)
    \/ \E r \in ParallelIds : ListenerResume(r)
    \/ \E r \in ParallelIds : ListenerDisconnect(r)
    \/ \E r \in ParallelIds : Retire(r)

SpecParallel == InitParallel /\ [][NextParallel]_vars

\* the pacing timers keep firing: a pending setInterval callback of the
\* interceptor and a pending awaited setTimeout of the listener run in the
\* end (the event loop starves no timer)
TimersFire ==
    \A r \in ReqIds : WF_vars(FetchTick(r)) /\ WF_vars(ListenerResume(r))

SpecLive == Spec /\ TimersFire

(***************************************************************************)
(* Properties.                                                             *)
(***************************************************************************)
\* the canonical streaming flag of a request: its stream field is the
\* boolean true or the string "true"
StreamingRequested(in) ==
    in.kind \in {"json", "multipart"}
        /\ (in.stream = JTrue \/ in.stream = JStr(StrTrue))

\* the request was sent in streaming mode: the reply was split into words
\* that are emitted one by one
StreamingMode(q) == q.words # <<>>

\* the request got a complete, successful answer made by one of the adapters
Answered(q) ==
    q.phase = "done" /\ q.result = "synthetic" /\ q.status = 200
        /\ q.sink = "closed"

\* how many times the terminal record is in a body
DoneCount(body) == Cardinality({j \in 1..Len(body) : body[j] = DoneRecord})

\* the content texts of the records of a body, in order
Contents(body) == [j \in 1..Len(body) |-> body[j].content]

\* C1: every answered chat request has the terminal record {"done": true}
\* on its output exactly once, as the last record, in streaming mode, in
\* non-streaming mode and for multipart requests, on both adapters.
C1_TerminalOnceLast ==
    \A r \in ReqIds :
        Answered(reqs[r]) =>
            /\ reqs[r].body # <<>>
            /\ reqs[r].body[Len(reqs[r].body)] = DoneRecord
            /\ DoneCount(reqs[r].body) = 1

\* C2: every answered request with streaming=false has a body of exactly
\* two event records: one content record carrying the full selected reply,
\* then the terminal record, on both adapters.
C2_NonStreamingTwoRecords ==
    \A r \in ReqIds :
        (Answered(reqs[r]) /\ reqs[r].input.kind \in {"json", "multipart"}
            /\ ~StreamingRequested(reqs[r].input)) =>
            reqs[r].body = <<ContentRecord(reqs[r].reply), DoneRecord>>

C3_WitnessFetch ==
    \E r \in ReqIds :
        /\ Answered(reqs[r]) /\ StreamingMode(reqs[r])
        /\ reqs[r].adapter = "fetch"
        /\ \E j \in 1..Len(reqs[r].words) : reqs[r].words[j] = <<>>

\* C4: once the sink of a streaming request is gone (stream cancelled,
\* client disconnected) before the terminal record was sent, the pacing
\* timer of the request fires no more and no write is attempted on the sink.
C4_NoEmissionAfterSinkGone ==
    \A r \in ReqIds : reqs[r].sink = "gone" => reqs[r].late = 0

\* C5: a call of the wrapped fetch whose URL path is not /api/chat goes to
\* the original fetch exactly once, with the same url and options, and its
\* result is returned; no response is synthesized for it.
C5_OtherPathsPassThrough ==
    \A r \in ReqIds :
        (reqs[r].adapter = "fetch" /\ reqs[r].input.url.pathname # ChatPath) =>
            /\ reqs[r].native = <<reqs[r].input>>
            /\ reqs[r].engineRuns = 0
            /\ reqs[r].result = "native"

\* C6: however many times the interceptor has been installed, a chat call
\* is handled by exactly one wrapper and never reaches the original fetch,
\* its records are emitted once (k + 1 records in streaming mode, two
\* otherwise), and a call that is not a chat call reaches the original
\* fetch exactly once with its own arguments.
C6_InstallIdempotent ==
    \A r \in ReqIds :
        LET q == reqs[r]
        IN  q.adapter = "fetch" =>
              /\ IsApiCall(q.input.url) =>
                     q.engineRuns = 1 /\ q.native = <<>>
              /\ ~IsApiCall(q.input.url) =>
                     q.engineRuns = 0 /\ q.native = <<q.input>>
                         /\ q.result = "native" /\ q.body = <<>>
              /\ (Answered(q) /\ StreamingMode(q)) =>
                     Len(q.body) = Len(Split(q.reply)) + 1
                         /\ DoneCount(q.body) = 1
              /\ (Answered(q) /\ ~StreamingMode(q)) => Len(q.body) <= 2

\* C6 witness: a call of another path went through two nested wrappers and
\* reached the original fetch once.
C6_Witness ==
    \E r \in ReqIds :
        /\ reqs[r].adapter = "fetch" /\ reqs[r].wrappers >= 2
        /\ reqs[r].result = "native" /\ reqs[r].native = <<reqs[r].input>>

\* C6 second witness state: with the interceptor installed twice, a chat
\* call was streamed to its end by one wrapper.
C6_WitnessChat ==
    \E r \in ReqIds :
        /\ installs >= 2 /\ reqs[r].adapter = "fetch"
        /\ Answered(reqs[r]) /\ StreamingMode(reqs[r])
        /\ reqs[r].engineRuns = 1 /\ reqs[r].wrappers = 1

\* `messages` is an array of message objects (as a value, or as the JSON
\* text of one in a multipart form)
WellFormedField(in) ==
    \/ in.messages \in WellFormedMessages
    \/ in.kind = "multipart"
         /\ \E v \in WellFormedMessages : in.messages = JsonText(v)

\* the body does not parse, or `messages` is missing or malformed
Malformed(in) ==
    \/ in.kind \in {"garbage", "jsonnull", "other"}
    \/ in.kind \in {"json", "multipart"} /\ ~WellFormedField(in)

\* C7: a request whose body does not parse, or whose messages field is
\* missing or malformed, is answered like a request with no messages: with
\* a normal reply, no error response and no exception, on both adapters.
C7_NormalizationNeverFails ==
    \A r \in ReqIds :
        LET q == reqs[r]
        IN  (q.phase = "done" /\ q.result = "synthetic" /\ Malformed(q.input)
                /\ Upload(q.input.files, 1) = NoError) =>
                q.status = 200 /\ q.thrown = 0

\* C8: a failure while a reply is selected, scheduled or emitted is caught
\* by the adapter and answered with status 500; it never escapes, also
\* after streaming has begun.
C8_FailuresCaughtAs500 ==
    \A r \in ReqIds :
        reqs[r].thrown > 0 => reqs[r].uncaught = 0 /\ reqs[r].status = 500

\* C9: an upload with a file whose MIME type is not allowed is rejected
\* with a 4xx status and an error body naming the type, and the chat
\* handler does not run.
C9_DisallowedTypeRejected4xx ==
    \A r \in ReqIds :
        LET q == reqs[r]
            error == Upload(q.input.files, 1)
        IN  (q.adapter = "listener" /\ q.phase \notin {"idle", "upload"}
                /\ error.class = "Error") =>
                /\ ~q.handlerRan
                /\ q.status \in 400..499
                /\ q.body = <<BackendErrorBody(error.message)>>

\* C10: a request is handled in streaming mode exactly when its stream
\* field is the boolean true or the string "true", on both adapters.
C10_StreamingIffTrue ==
    \A r \in ReqIds :
        LET q == reqs[r]
        IN  (q.status = 200 /\ q.result = "synthetic"
                /\ q.input.kind \in {"json", "multipart"}) =>
                (StreamingMode(q) <=> StreamingRequested(q.input))

\* the `messages` a request carries: the value itself, or the value its
\* JSON text stands for
CarriedMessages(in) ==
    IF in.messages.t = "string" /\ JsonParse(in.messages).ok
    THEN JsonParse(in.messages).value
    ELSE in.messages

\* the request carries a last message with a text content
HasLastText(in) ==
    CarriedMessages(in) \in WellFormedMessages
        /\ CarriedMessages(in).items # <<>>

\* the content of the last message, lower-cased
LastLower(in) ==
    LET items == CarriedMessages(in).items
    IN  ToLowerCase(items[Len(items)].text)

\* the last message of the request contains the keyword
Mentions(in, keyword) == HasLastText(in) /\ Includes(LastLower(in), keyword)

\* the names of the attachments of a request, as its adapter reads them
AttachmentNames(q) ==
    IF q.adapter = "fetch" THEN FormFileNames(q.input.files)
    ELSE OriginalNames(q.input.files)

\* the reply of the request is the file acknowledgment of its adapter,
\* naming its attachments joined by ', '
FileAcknowledged(q) ==
    /\ AttachmentNames(q) # <<>>
    /\ q.reply = IF q.adapter = "fetch"
                 THEN FileResponse(AttachmentNames(q))
                 ELSE BackendFileText(AttachmentNames(q))
    /\ Includes(q.reply, Join(AttachmentNames(q), CommaSpace))

\* C11: a request whose reply has been selected got the file acknowledgment
\* naming every attachment exactly when its last message contains "file"
\* and it carries at least one attachment, also when the message contains
\* a code keyword; without the keyword or without attachments it got
\* another reply.
C11_FileAckIffKeywordAndAttachment ==
    \A r \in ReqIds :
        LET q == reqs[r]
        IN  q.reply # <<>> =>
              (FileAcknowledged(q)
                  <=> (Mentions(q.input, KwFile) /\ AttachmentNames(q) # <<>>))

\* C11 on the listener: the message "file code" with attachments was
\* answered with the file acknowledgment.
C11_ListenerFileBeforeCode ==
    \E r \in ReqIds :
        /\ reqs[r].adapter = "listener" /\ reqs[r].phase = "done"
        /\ Mentions(reqs[r].input, KwFile) /\ Mentions(reqs[r].input, KwCode)
        /\ Len(reqs[r].input.files) = 2
        /\ FileAcknowledged(reqs[r])

\* the text the fragment of the j-th token (1-based) of a reply carries
\* when every token but the last is followed by one space
TokenThenSpace(words, j) ==
    words[j] \o (IF j < Len(words) THEN <<SP>> ELSE <<>>)

\* C13: in streaming mode the j-th content record of a request carries the
\* j-th word of the reply followed by exactly one space, and the record of
\* the last word carries the word alone; no record starts with a space
\* that is not part of the reply's own run of spaces.
C13_TrailingSpaceFragments ==
    \A r \in ReqIds :
        LET q == reqs[r]
        IN  StreamingMode(q) =>
              \A j \in 1..Len(q.body) :
                  q.body[j].keys = {"content"} =>
                      /\ j <= Len(q.words)
                      /\ q.body[j].content = TokenThenSpace(q.words, j)

\* the records the interceptor puts on the wire for a reply, all of them,
\* when nothing disturbs the emission: in streaming mode one content record
\* per chunk from the interval callback and then the done record, otherwise
\* the content record with the whole reply and the done record
FetchWire(response, streaming) ==
    IF streaming
    THEN LET chunks == Split(response)
         IN  [j \in 1..Len(chunks) |-> ContentRecord(FetchChunk(chunks, j - 1))]
                 \o <<DoneRecord>>
    ELSE <<ContentRecord(response), DoneRecord>>

\* the same for the listener: in streaming mode one content record per word
\* from the for loop and then the done record, otherwise the JSON document
\* of res.json
ListenerWire(response, streaming) ==
    IF streaming
    THEN LET words == Split(response)
         IN  [j \in 1..Len(words) |-> ContentRecord(ListenerChunk(words, j - 1))]
                 \o <<DoneRecord>>
    ELSE <<BackendJsonBody(response)>>

\* the records the adapter of a request puts on the wire for its reply
OwnWire(q) ==
    IF q.adapter = "fetch" THEN FetchWire(q.reply, StreamingMode(q))
    ELSE ListenerWire(q.reply, StreamingMode(q))

\* the records the other adapter puts on the wire for the same reply and
\* the same streaming flag
OtherWire(q) ==
    IF q.adapter = "fetch" THEN ListenerWire(q.reply, StreamingMode(q))
    ELSE FetchWire(q.reply, StreamingMode(q))

\* C12: the records a JSON chat request was answered with by one adapter
\* are the records the other adapter emits for the same reply text and the
\* same streaming flag: the same number of records, the same content text
\* in each content record, the same terminal record.
C12_SameWireRecords ==
    \A r \in ReqIds :
        LET q == reqs[r]
        IN  (Answered(q) /\ q.input.kind = "json") =>
                q.body = OwnWire(q) /\ q.body = OtherWire(q)

\* the emission operators describe what the actions emit: every answered
\* JSON request has the records of its own adapter's wire
OwnWireEmitted ==
    \A r \in ReqIds :
        (Answered(reqs[r]) /\ reqs[r].input.kind = "json") =>
            reqs[r].body = OwnWire(reqs[r])

\* the text the adapter of a request hands to its selector as the last
\* user content: userMessage, or the literal 'file upload' of the
\* interceptor's FormData branch
SelectorContent(q) ==
    IF q.adapter = "listener" THEN ListenerUserMessage(q.input)
    ELSE IF q.input.kind = "FormData" THEN JStr(StrFileUpload)
    ELSE FetchUserMessage(q.input)

\* the general (default) responses of the adapter of a request
GeneralResponses(q) ==
    IF q.adapter = "fetch" THEN Range(MockResponses) ELSE GetRandomResponse

\* the request carries a messages array with no message in it
EmptyMessages(in) == CarriedMessages(in) = JArr(<<>>)

\* C15: a request whose messages array is empty has its reply selected for
\* the last user content "Hello", and the reply is one of the general
\* responses of its adapter, on both adapters.
C15_EmptyMessagesHelloGeneral ==
    \A r \in ReqIds :
        LET q == reqs[r]
        IN  (q.reply # <<>> /\ EmptyMessages(q.input)) =>
                /\ SelectorContent(q) = JStr(StrHello)
                /\ q.reply \in GeneralResponses(q)

\* C15 on JSON requests of the interception path, where it holds
C15_FetchJsonHello ==
    \A r \in ReqIds :
        LET q == reqs[r]
        IN  (q.reply # <<>> /\ EmptyMessages(q.input) /\ q.adapter = "fetch"
                /\ q.input.kind = "json") =>
                /\ SelectorContent(q) = JStr(StrHello)
                /\ q.reply \in GeneralResponses(q)

\* C15 on the listener, the part that holds: the reply is a general response
C15_ListenerGeneral ==
    \A r \in ReqIds :
        LET q == reqs[r]
        IN  (q.reply # <<>> /\ EmptyMessages(q.input) /\ q.adapter = "listener") =>
                q.reply \in GeneralResponses(q)

\* the keyword class a message with the given attachments belongs to, by
\* the priority list: file with attachments, code / javascript / python,
\* technical / performance / optimize, how with work or integrate,
\* markdown, and general for a message matching none
KeywordClass(lower, attachments) ==
    IF Includes(lower, KwFile) /\ attachments # <<>> THEN "file"
    ELSE IF Includes(lower, KwCode) \/ Includes(lower, KwJavascript)
            \/ Includes(lower, KwPython) THEN "code"
    ELSE IF Includes(lower, KwTechnical) \/ Includes(lower, KwPerformance)
            \/ Includes(lower, KwOptimize) THEN "technical"
    ELSE IF Includes(lower, KwHow)
            /\ (Includes(lower, KwWork) \/ Includes(lower, KwIntegrate))
    THEN "how"
    ELSE IF Includes(lower, KwMarkdown) THEN "markdown"
    ELSE "general"

\* the class the reply of a request comes from, by the texts of its adapter
ReplyClass(q) ==
    IF FileAcknowledged(q) THEN "file"
    ELSE IF q.adapter = "fetch"
    THEN IF q.reply \in Range(CodeExamples) THEN "code"
         ELSE IF q.reply \in Range(TechnicalResponses) THEN "technical"
         ELSE IF q.reply = IntegrationText THEN "how"
         ELSE IF q.reply \in Range(MockResponses) THEN "general"
         ELSE "none"
    ELSE IF q.reply = BackendCodeText THEN "code"
         ELSE IF q.reply = BackendMarkdownText THEN "markdown"
         ELSE IF q.reply \in GetRandomResponse THEN "general"
         ELSE "none"

\* C16: the reply of a request with a last message comes from the
\* highest-priority keyword class the message, compared case-insensitively,
\* matches: code before technical, the markdown text for "markdown" with no
\* higher class, a general response only for a message matching no class.
C16_HighestPriorityClass ==
    \A r \in ReqIds :
        LET q == reqs[r]
        IN  (q.reply # <<>> /\ HasLastText(q.input)) =>
                ReplyClass(q) = KeywordClass(LastLower(q.input), AttachmentNames(q))

\* C16 for the classes both adapters have: a message with a code keyword
\* (upper case too, and next to a file keyword without attachments) gets a
\* code reply, and a message matching no class a general response
C16_CodeAndGeneral ==
    \A r \in ReqIds :
        LET q == reqs[r]
            class == KeywordClass(LastLower(q.input), AttachmentNames(q))
        IN  (q.reply # <<>> /\ HasLastText(q.input) /\ q.input.kind # "FormData"
                /\ (Includes(LastLower(q.input), KwCode) \/ class = "general")) =>
                ReplyClass(q) = class

\* C17: once the chat handler has run for a request with uploaded files,
\* every file the upload stored is deleted or its deletion is scheduled
\* (the unlink timer is pending), whatever the outcome of the request,
\* the 500 response for a `messages` field that does not parse included.
C17_StagedFilesGetDeleted ==
    \A r \in ReqIds :
        LET q == reqs[r]
        IN  (q.adapter = "listener" /\ q.handlerRan) =>
                (q.staged = {} \/ q.cleanup)

\* C17 where the handler gets past the parsing of `messages`: the files are
\* deleted or the unlink timer is pending
C17_DeletedAfterParse ==
    \A r \in ReqIds :
        LET q == reqs[r]
        IN  (q.adapter = "listener" /\ q.handlerRan /\ ~ParseThrows(q.input)
                /\ ~ThrowsOnRead(ListenerMessages(q.input))) =>
                (q.staged = {} \/ q.cleanup)

\* the request is being streamed: its pacing timer is pending
Streaming(r) == reqs[r].phase \in {"stream", "write"} /\ reqs[r].timer

\* the streaming of the request has come to its end: the terminal record
\* is the last record sent, the sink is closed and no timer is pending
Terminated(r) ==
    /\ reqs[r].phase = "done" /\ StreamingMode(reqs[r])
    /\ reqs[r].body # <<>>
    /\ reqs[r].body[Len(reqs[r].body)] = DoneRecord
    /\ reqs[r].sink = "closed"
    /\ ~reqs[r].timer

\* C18: with the pacing timers firing, every streaming request whose sink
\* stays open comes to its end: the terminal record is sent, the sink is
\* closed and the timer cleared; and once the sink is closed no record is
\* written to it and no timer of the request is pending, until the slot is
\* left.
C18_StreamingTerminates ==
    /\ \A r \in ReqIds :
           Streaming(r) ~> (Terminated(r) \/ reqs[r].sink = "gone")
    /\ [][\A r \in ReqIds :
              reqs[r].sink = "closed" =>
                  \/ reqs'[r] = Idle
                  \/ /\ reqs'[r].body = reqs[r].body
                     /\ reqs'[r].sink = "closed"
                     /\ ~reqs'[r].timer]_vars

\* C18 witness: the interceptor streamed a reply of more than one chunk to
\* its end, the timer is cleared and the sink closed.
C18_Witness ==
    \E r \in ReqIds :
        /\ Terminated(r) /\ reqs[r].adapter = "fetch"
        /\ reqs[r].i = Len(reqs[r].words) /\ reqs[r].i >= 2
        /\ Len(reqs[r].body) = reqs[r].i + 1

\* C18 second witness state: the same for the listener's loop.
C18_WitnessListener ==
    \E r \in ReqIds :
        /\ Terminated(r) /\ reqs[r].adapter = "listener"
        /\ reqs[r].i = Len(reqs[r].words) /\ reqs[r].i >= 2
        /\ Len(reqs[r].body) = reqs[r].i + 1

\* the replies a request can get by its own url, messages, attachments and
\* stream flag alone, the lists being what the scripts declare
OwnCandidates(q) ==
    IF q.adapter = "listener"
    THEN BackendSelectFrom(InitialCorpora, ListenerUserMessage(q.input).text,
                           OriginalNames(q.input.files))
    ELSE IF q.input.kind = "FormData"
    THEN IF FormFileNames(q.input.files) # <<>>
         THEN {FileResponse(FormFileNames(q.input.files))}
         ELSE GenerateResponseFrom(InitialCorpora, JStr(StrFileUpload))
    ELSE GenerateResponseFrom(InitialCorpora, FetchUserMessage(q.input))

C19_WitnessListener ==
    \E r \in ReqIds :
        /\ reqs[r].phase = "done" /\ reqs[r].adapter = "listener"
        /\ reqs[r].reply \in Range(BackendResponses)
        /\ reqs[r].reply # BackendResponses[1]
        /\ corpora = InitialCorpora

\* a is an initial part of b
IsPrefix(a, b) == Len(a) <= Len(b) /\ a = SubSeq(b, 1, Len(a))

\* the emission counter of a request agrees with what its sink holds: the
\* interceptor has sent i chunks, the listener's loop has written (or, on a
\* connection that is gone, dropped) words 0..i
CounterInStep(q) ==
    /\ (q.adapter = "fetch" /\ q.phase = "stream") => Len(q.body) = q.i
    /\ (q.adapter = "listener" /\ q.phase = "write") =>
           Len(q.body) + q.late = q.i + 1

\* C14: with several streaming requests in flight, every step changes one
\* request only, leaving the records, the sink and the counters of every
\* other request as they were, and what the sink of that request holds
\* after the step is an initial part of the records of its own reply, in
\* generation order, with its counter in step; this for every interleaving
\* of the timer callbacks.
C14_OwnSinkInOrder ==
    [][\A r \in ParallelIds :
           reqs'[r] # reqs[r] =>
               /\ \A s \in ParallelIds \ {r} : reqs'[s] = reqs[s]
               /\ IsPrefix(reqs'[r].body, OwnWire(reqs'[r]))
               /\ CounterInStep(reqs'[r])]_vars

\* C14 witness: two streams of the interceptor with different replies are
\* in flight together, each with a chunk sent and more to come.
C14_Witness ==
    \E r, s \in ParallelIds :
        /\ r # s
        /\ reqs[r].adapter = "fetch" /\ reqs[s].adapter = "fetch"
        /\ reqs[r].phase = "stream" /\ reqs[s].phase = "stream"
        /\ reqs[r].sink = "open" /\ reqs[s].sink = "open"
        /\ reqs[r].reply # reqs[s].reply
        /\ reqs[r].i = 1 /\ reqs[s].i = 1

\* C14 second witness state: a stream of the interceptor and one of the
\* listener are in flight together, both past their first record.
C14_WitnessBothAdapters ==
    \E r, s \in ParallelIds :
        /\ reqs[r].adapter = "fetch" /\ reqs[s].adapter = "listener"
        /\ reqs[r].phase = "stream" /\ reqs[s].phase = "write"
        /\ Len(reqs[r].body) >= 1 /\ Len(reqs[s].body) >= 2

====
